---- MODULE Spec2Model ----
(***************************************************************************)
(* Model of the p115strmhelper frontend bridge:                            *)
(*   - the diagnostics singleton (utils/init-sentry.js, utils/sentry.js),  *)
(*   - the view shell App.vue (src/unnamed/part_002),                      *)
(*   - the status widget (components/Dashboard.vue).                       *)
(* JavaScript runs every handler to completion, so each handler is one     *)
(* action; the only suspension point is the await inside fetchData, which  *)
(* splits it into fetchData (up to the await) and fetchDataResume.         *)
(***************************************************************************)
EXTENDS Integers, Sequences, FiniteSets, TLC

\* ------------------------------------------------------------------ bounds
MaxEnsureCalls == 3
MaxOutbox == 3
MaxFetches == 3

\* JavaScript null / undefined
NULL == "null"

\* JavaScript truthiness of a string-or-null value.
Truthy(x) == x # NULL /\ x # ""

\* a || b
OrElse(a, b) == IF Truthy(a) THEN a ELSE b

VARIABLES
  \* ---- utils/init-sentry.js, utils/sentry.js
  sentryInitialized,   \* init-sentry.js:4
  tempApp,             \* init-sentry.js:5
  winVueApp,           \* window.__VUE_APP__       (environment)
  winVueInstance,      \* window.__VUE_INSTANCE__  (environment)
  sdkInitCalls,        \* number of Sentry.init(...) invocations seen by the SDK
  sdkApp,              \* the app the SDK was last given (NULL: none)
  filterRegistered,    \* a Sentry.init call returned: the client has beforeSend
  initSentryCalls,     \* observer: number of initSentry(...) invocations
  failedAttempts,      \* observer: attempts during which something threw
  ensureCalls,         \* observer: number of ensureSentryInitialized() calls
  consoleErrors,       \* observer: console.error lines written by both files
  callThrew,           \* observer: the last ensureSentryInitialized() call threw
  lastFilter,          \* observer: the last beforeSend(event, hint) call
  \* ---- App.vue (src/unnamed/part_002)
  appPhase,            \* "setup" (setup() ran), "mounted", "unmounted"
  currentComponent,    \* part_002:20, "Page" or "Config"
  api,                 \* part_002:22, the capability handle (NULL until set)
  listening,           \* handleMessage is registered on window 'message'
  parentOk,            \* window.parent && window.parent.postMessage (environment)
  outbox,              \* envelopes posted to window.parent, in order
  appThrew,            \* observer: the last App.vue handler threw
  appLastOp,           \* observer: the last App.vue handler that ran
  appLastArg,          \* observer: the event data / payload it was given
  appBefore,           \* observer: the shell as that handler found it
  appLastSender,       \* observer: the window that sent the last message
  \* ---- components/Dashboard.vue
  dashPhase,           \* "setup" (script setup ran), "mounted", "unmounted"
  propsApi,            \* props.api (Dashboard.vue:94), NULL or a handle
  refreshInterval,     \* props.refreshInterval (Dashboard.vue:109)
  allowRefresh,        \* props.allowRefresh (Dashboard.vue:104)
  loading,             \* Dashboard.vue:116
  error,               \* Dashboard.vue:117
  initialDataLoaded,   \* Dashboard.vue:118
  lastRefreshedTimestamp, \* Dashboard.vue:119
  status,              \* Dashboard.vue:122-126
  refreshTimer,        \* Dashboard.vue:129
  intervalActive,      \* the browser still holds the setInterval of line 182
  pending,             \* fetchData calls suspended at the await of line 146
  fetchCount,          \* observer: number of fetchData calls so far
  successes,           \* observer: structured-success responses processed
  lastDone,            \* observer: the fetchData call that completed last
  dashLastOp,          \* observer: the last Dashboard.vue step that ran
  fetchRejected        \* observer: the last completed fetchData promise rejected

sentryVars == <<sentryInitialized, tempApp, winVueApp, winVueInstance,
                sdkInitCalls, sdkApp, filterRegistered, initSentryCalls, failedAttempts,
                ensureCalls, consoleErrors, callThrew, lastFilter>>

appVars == <<appPhase, currentComponent, api, listening, parentOk, outbox,
             appThrew, appLastOp, appLastArg, appBefore, appLastSender>>

dashVars == <<dashPhase, propsApi, refreshInterval, allowRefresh, loading,
              error, initialDataLoaded, lastRefreshedTimestamp, status,
              refreshTimer, intervalActive, pending, fetchCount, successes,
              lastDone, dashLastOp, fetchRejected>>

vars == <<sentryInitialized, tempApp, winVueApp, winVueInstance,
          sdkInitCalls, sdkApp, filterRegistered, initSentryCalls, failedAttempts,
          ensureCalls, consoleErrors, callThrew, lastFilter,
          appPhase, currentComponent, api, listening, parentOk, outbox,
          appThrew, appLastOp, appLastArg, appBefore, appLastSender,
          dashPhase, propsApi, refreshInterval, allowRefresh, loading,
          error, initialDataLoaded, lastRefreshedTimestamp, status,
          refreshTimer, intervalActive, pending, fetchCount, successes,
          lastDone, dashLastOp, fetchRejected>>

\* ===================================================== diagnostics singleton

\* What getCurrentInstance() does for the caller: throws, returns null, or
\* returns an instance carrying appContext.app, only .app, or neither.
InstanceKinds == {"throws", "none", "ctxApp", "instApp", "bare"}

\* createApp(...) either returns an app or throws.
CreateOutcomes == {"ok", "throws"}

\* The reporting client: everything works, or one of its three calls throws.
SentryOutcomes == {"ok", "replayThrows", "initThrows", "setUserThrows"}

\* init-sentry.js:13-25. The app found on the current instance; a throw of
\* getCurrentInstance is swallowed by the inner catch and leaves app null.
instanceApp(inst) ==
  CASE inst = "ctxApp"  -> "ctxApp"
    [] inst = "instApp" -> "instApp"
    [] OTHER            -> NULL

\* init-sentry.js:27-33. The process-global slots, tried only when no app yet.
windowApp(app) ==
  IF app # NULL THEN app
  ELSE IF winVueApp # NULL THEN winVueApp
  ELSE IF winVueInstance # NULL THEN winVueInstance
  ELSE NULL

\* sentry.js:5-104 without its try/catch: a throw of the client escapes.
initSentryUncaught(app, enabled, so) ==
  IF ~enabled
  THEN [called |-> FALSE, sdkInit |-> FALSE, registered |-> FALSE,
        app |-> NULL, failed |-> FALSE, logged |-> 0, threw |-> FALSE]
  ELSE [called  |-> TRUE,
        sdkInit |-> so \in {"ok", "initThrows", "setUserThrows"},
        registered |-> so \in {"ok", "setUserThrows"},
        app     |-> IF so \in {"ok", "setUserThrows"} THEN app ELSE NULL,
        failed  |-> so # "ok",
        logged  |-> 0,
        threw   |-> so # "ok"]

\* sentry.js:5-104. options.enabled === false returns at once; otherwise the
\* options are built (replayIntegration), Sentry.init and Sentry.setUser are
\* called, and whatever they throw is caught and logged (lines 101-103).
initSentry(app, enabled, so) ==
  IF ~enabled
  THEN [called |-> FALSE, sdkInit |-> FALSE, registered |-> FALSE,
        app |-> NULL, failed |-> FALSE, logged |-> 0, threw |-> FALSE]
  ELSE [called  |-> TRUE,
        sdkInit |-> so \in {"ok", "initThrows", "setUserThrows"},
        registered |-> so \in {"ok", "setUserThrows"},
        app     |-> IF so \in {"ok", "setUserThrows"} THEN app ELSE NULL,
        failed  |-> so # "ok",
        logged  |-> IF so # "ok" THEN 1 ELSE 0,
        threw   |-> FALSE]

\* init-sentry.js:13-48. The body of the outer try: locate an app, fall back
\* to a placeholder app, call initSentry(app, null, {enabled: true}).
ensureAttempt(inst, co, so) ==
  LET found   == windowApp(instanceApp(inst))
      created == found = NULL /\ co = "ok"
      app     == IF found # NULL THEN found
                 ELSE IF created THEN "tempApp" ELSE NULL
      r       == initSentry(app, TRUE, so)
  IN  [tempApp |-> IF created THEN "tempApp" ELSE tempApp,
       logged  |-> (IF found = NULL /\ co = "throws" THEN 1 ELSE 0) + r.logged,
       faulted |-> \/ inst = "throws"
                   \/ (found = NULL /\ co = "throws")
                   \/ r.failed,
       init    |-> r]

\* ---- sentry.js:58-93, the beforeSend filter

\* A URL or a stack text, by what lines 61-65 look for in it.
UrlOwn == "https://host/plugins/p115strmhelper/index.js"
UrlOwnShort == "https://host/plugins/115strmhelper/index.js"
UrlOtherPlugin == "https://host/plugins/other/index.js"
UrlPlain == "https://host/assets/app.js"

\* s.includes('p115strmhelper')
IncludesOwn(s) == s = UrlOwn

\* s.includes('115strmhelper')
IncludesOwnShort(s) == s \in {UrlOwn, UrlOwnShort}

\* s.includes('/plugins/')
IncludesPlugins(s) == s \in {UrlOwn, UrlOwnShort, UrlOtherPlugin}

\* Messages of an original exception, by what lines 74-87 look for in them.
MsgPlain == "boom"
MsgIgnored == "ResizeObserver loop limit exceeded"
MsgVueWarn == "[Vue warn]: Unhandled error"

\* The test of lines 76-81.
IsIgnoredMessage(m) == m = MsgIgnored

\* m.includes('[Vue warn]')
IncludesVueWarn(m) == m = MsgVueWarn

\* The event argument: url is event.request?.url, NULL when the event has no
\* request or the request no url.
FilterEvents == [url : {NULL, "", UrlOwn, UrlOwnShort, UrlOtherPlugin, UrlPlain}]

\* The hint argument: absent, an object without originalException, or an
\* object whose originalException has (or lacks) stack, message and name.
NoHint ==
  [present |-> FALSE, hasExc |-> FALSE, stack |-> NULL, msg |-> NULL,
   name |-> NULL]

FilterHints ==
  {NoHint, [NoHint EXCEPT !.present = TRUE]}
    \cup {[present |-> TRUE, hasExc |-> TRUE, stack |-> st, msg |-> m,
           name |-> n] :
             st \in {NULL, UrlOwn, UrlOtherPlugin},
             m \in {NULL, "", MsgPlain, MsgIgnored, MsgVueWarn},
             n \in {NULL, "Error", "Vue warn"}}

\* sentry.js:58-93. The value beforeSend returns, "null" or "event", or
\* "throws" when it raises a TypeError: on line 59 when the event gives no
\* url and hint is undefined, on line 87 when the exception has no message
\* and its name is not 'Vue warn'.
beforeSend(event, hint) ==
  LET stack == IF hint.hasExc THEN hint.stack ELSE NULL
      url   == OrElse(event.url, OrElse(stack, ""))
      isPluginError == IncludesOwn(url) \/ IncludesOwnShort(url)
  IN  IF ~Truthy(event.url) /\ ~hint.present THEN "throws"
      ELSE IF /\ ~isPluginError /\ Truthy(url)
              /\ ~IncludesOwn(url) /\ ~IncludesOwnShort(url)
              /\ IncludesPlugins(url) /\ ~IncludesOwn(url)
      THEN "null"
      ELSE IF hint.present /\ hint.hasExc
      THEN IF Truthy(hint.msg) /\ IsIgnoredMessage(hint.msg) THEN "null"
           ELSE IF hint.name = "Vue warn" THEN "null"
           ELSE IF hint.msg = NULL THEN "throws"
           ELSE IF IncludesVueWarn(hint.msg) THEN "null"
           ELSE "event"
      ELSE "event"

\* The effect of one attempt on the SDK and on the observers.
AttemptEffect(a) ==
  /\ tempApp' = a.tempApp
  /\ sdkInitCalls' = sdkInitCalls + (IF a.init.sdkInit THEN 1 ELSE 0)
  /\ sdkApp' = IF a.init.app # NULL THEN a.init.app ELSE sdkApp
  /\ filterRegistered' = (filterRegistered \/ a.init.registered)
  /\ initSentryCalls' = initSentryCalls + (IF a.init.called THEN 1 ELSE 0)
  /\ failedAttempts' = failedAttempts + (IF a.faulted THEN 1 ELSE 0)

\* init-sentry.js:7-54 without the early return of lines 8-10.
ensureSentryInitializedUnguarded(inst, co, so) ==
  LET a == ensureAttempt(inst, co, so) IN
  /\ ensureCalls' = ensureCalls + 1
  /\ AttemptEffect(a)
  /\ sentryInitialized' = IF a.init.threw THEN sentryInitialized ELSE TRUE
  /\ consoleErrors' = consoleErrors + a.logged + (IF a.init.threw THEN 1 ELSE 0)
  /\ callThrew' = FALSE
  /\ UNCHANGED <<winVueApp, winVueInstance>>

\* init-sentry.js:7-54 with no try block at all: getCurrentInstance, createApp
\* and initSentry throw straight to the caller.
ensureSentryInitializedNoTry(inst, co, so) ==
  /\ ensureCalls' = ensureCalls + 1
  /\ UNCHANGED <<winVueApp, winVueInstance>>
  /\ IF sentryInitialized
     THEN /\ callThrew' = FALSE
          /\ UNCHANGED <<sentryInitialized, tempApp, sdkInitCalls, sdkApp, filterRegistered,
                         initSentryCalls, failedAttempts, consoleErrors>>
     ELSE IF inst = "throws" \/ (windowApp(instanceApp(inst)) = NULL /\ co = "throws")
     THEN /\ callThrew' = TRUE
          /\ UNCHANGED <<sentryInitialized, tempApp, sdkInitCalls, sdkApp, filterRegistered,
                         initSentryCalls, failedAttempts, consoleErrors>>
     ELSE LET a == ensureAttempt(inst, co, so) IN
          /\ AttemptEffect(a)
          /\ sentryInitialized' = TRUE
          /\ consoleErrors' = consoleErrors + a.init.logged
          /\ callThrew' = FALSE

\* init-sentry.js:7-54. Returns at once when the flag is set (8-10); otherwise
\* runs the attempt; the flag is set on line 50 only when initSentry returned,
\* and anything thrown out of the attempt is caught and logged (51-53).
ensureSentryInitialized(inst, co, so) ==
  /\ ensureCalls' = ensureCalls + 1
  /\ UNCHANGED <<winVueApp, winVueInstance>>
  /\ callThrew' = FALSE
  /\ IF sentryInitialized
     THEN UNCHANGED <<sentryInitialized, tempApp, sdkInitCalls, sdkApp, filterRegistered,
                      initSentryCalls, failedAttempts, consoleErrors>>
     ELSE LET a == ensureAttempt(inst, co, so) IN
          /\ AttemptEffect(a)
          /\ sentryInitialized' = IF a.init.threw THEN sentryInitialized ELSE TRUE
          /\ consoleErrors' = consoleErrors + a.logged
                                + (IF a.init.threw THEN 1 ELSE 0)

\* ================================================================ view shell

\* Capability handles a host may put in an api message; NULL stands for an
\* api message that carries no data field.
Handles == {"apiA", "apiB"}

\* event.data of a window 'message' event: absent (present = FALSE), an object
\* without a type, or an object with a type (and, for api, a data field).
MessageData ==
  {[present |-> FALSE, type |-> NULL, data |-> NULL]}
    \cup {[present |-> TRUE, type |-> t, data |-> NULL] :
             t \in {NULL, "showConfig", "close", "ready"}}
    \cup {[present |-> TRUE, type |-> "api", data |-> h] : h \in Handles \cup {NULL}}

\* The argument recorded for a handler that takes none.
NoArg == [present |-> FALSE, type |-> NULL, data |-> NULL]

\* Any window may post to the guest; handleMessage never looks at the sender.
Senders == {"parent", "other"}

\* The payloads Config emits with 'save': two plain objects, and one the
\* structured-clone algorithm rejects (a function, a reactive proxy).
Payloads == {"cfgA", "cfgB", "uncloneable"}

Cloneable(x) == x # "uncloneable"

\* event.data && event.data.type === t   (part_002:27, 33)
IsType(d, t) == d.present /\ d.type = t

\* window.parent.postMessage(envelope, '*'): the envelope is structured-cloned
\* and queued for the parent; an uncloneable payload throws DataCloneError.
PostMessageThrows(envelope) == ~Cloneable(envelope.data)

\* part_002:25-36 with the second test turned into a plain else: every
\* message that is not an api message shows Config.
handleMessageElseConfig(d) ==
  /\ api' = IF IsType(d, "api") THEN d.data ELSE api
  /\ currentComponent' = IF IsType(d, "api") THEN currentComponent ELSE "Config"
  /\ appThrew' = FALSE
  /\ UNCHANGED <<appPhase, listening, parentOk, outbox>>

\* part_002:25-36 with line 33 also requiring the handle to be set: a
\* showConfig message that arrives before the api message is ignored.
handleMessageConfigNeedsApi(d) ==
  /\ api' = IF IsType(d, "api") THEN d.data ELSE api
  /\ currentComponent' = IF IsType(d, "showConfig") /\ api # NULL THEN "Config"
                          ELSE currentComponent
  /\ appThrew' = FALSE
  /\ UNCHANGED <<appPhase, listening, parentOk, outbox>>

\* part_002:25-36 with the api branch also returning to Page.
handleMessageApiShowsPage(d) ==
  /\ api' = IF IsType(d, "api") THEN d.data ELSE api
  /\ currentComponent' = IF IsType(d, "showConfig") THEN "Config"
                          ELSE IF IsType(d, "api") THEN "Page"
                          ELSE currentComponent
  /\ appThrew' = FALSE
  /\ UNCHANGED <<appPhase, listening, parentOk, outbox>>

\* part_002:25-36
handleMessage(d) ==
  /\ api' = IF IsType(d, "api") THEN d.data ELSE api
  /\ currentComponent' = IF IsType(d, "showConfig") THEN "Config"
                          ELSE currentComponent
  /\ appThrew' = FALSE
  /\ UNCHANGED <<appPhase, listening, parentOk, outbox>>

\* part_002:39-41 with the else branch naming a view that does not exist.
switchComponentToMissingView ==
  /\ currentComponent' = IF currentComponent = "Page" THEN "Config" ELSE NULL
  /\ appThrew' = FALSE
  /\ UNCHANGED <<appPhase, api, listening, parentOk, outbox>>

\* part_002:39-41 always showing Config.
switchComponentOneWay ==
  /\ currentComponent' = "Config"
  /\ appThrew' = FALSE
  /\ UNCHANGED <<appPhase, api, listening, parentOk, outbox>>

\* part_002:39-41
switchComponent ==
  /\ currentComponent' = IF currentComponent = "Page" THEN "Config" ELSE "Page"
  /\ appThrew' = FALSE
  /\ UNCHANGED <<appPhase, api, listening, parentOk, outbox>>

\* part_002:44-48 without the test of line 45: with no parent the call of
\* line 46 throws.
closeModalUnguarded ==
  /\ outbox' = IF parentOk
               THEN Append(outbox, [type |-> "close", data |-> NULL])
               ELSE outbox
  /\ appThrew' = ~parentOk
  /\ UNCHANGED <<appPhase, currentComponent, api, listening, parentOk>>

\* part_002:44-48 followed by line 56 of saveConfig: close also shows Page.
closeModalReturnsToPage ==
  /\ outbox' = IF parentOk
               THEN Append(outbox, [type |-> "close", data |-> NULL])
               ELSE outbox
  /\ currentComponent' = "Page"
  /\ appThrew' = FALSE
  /\ UNCHANGED <<appPhase, api, listening, parentOk>>

\* part_002:44-48
closeModal ==
  /\ outbox' = IF parentOk
               THEN Append(outbox, [type |-> "close", data |-> NULL])
               ELSE outbox
  /\ appThrew' = FALSE
  /\ UNCHANGED <<appPhase, currentComponent, api, listening, parentOk>>

\* part_002:51-57. Line 56 runs only when line 53 did not throw.
saveConfig(config) ==
  LET envelope == [type |-> "save", data |-> config] IN
  IF parentOk /\ PostMessageThrows(envelope)
  THEN /\ appThrew' = TRUE
       /\ UNCHANGED <<appPhase, currentComponent, api, listening, parentOk,
                      outbox>>
  ELSE /\ outbox' = IF parentOk THEN Append(outbox, envelope) ELSE outbox
       /\ currentComponent' = "Page"
       /\ appThrew' = FALSE
       /\ UNCHANGED <<appPhase, api, listening, parentOk>>

\* part_002:60-67 announcing ready before and after registering the listener.
onMountedAnnouncesTwice ==
  /\ appPhase' = "mounted"
  /\ listening' = TRUE
  /\ outbox' = IF parentOk
               THEN outbox \o <<[type |-> "ready", data |-> NULL],
                                [type |-> "ready", data |-> NULL]>>
               ELSE outbox
  /\ appThrew' = FALSE
  /\ UNCHANGED <<currentComponent, api, parentOk>>

\* part_002:60-67 without line 61: ready is announced, no listener exists.
onMountedWithoutListener ==
  /\ appPhase' = "mounted"
  /\ UNCHANGED listening
  /\ outbox' = IF parentOk
               THEN Append(outbox, [type |-> "ready", data |-> NULL])
               ELSE outbox
  /\ appThrew' = FALSE
  /\ UNCHANGED <<currentComponent, api, parentOk>>

\* part_002:60-67
onMounted ==
  /\ appPhase' = "mounted"
  /\ listening' = TRUE
  /\ outbox' = IF parentOk
               THEN Append(outbox, [type |-> "ready", data |-> NULL])
               ELSE outbox
  /\ appThrew' = FALSE
  /\ UNCHANGED <<currentComponent, api, parentOk>>

\* part_002:70-72 without line 71: the listener stays registered.
onBeforeUnmountKeepsListener ==
  /\ appPhase' = "unmounted"
  /\ UNCHANGED listening
  /\ appThrew' = FALSE
  /\ UNCHANGED <<currentComponent, api, parentOk, outbox>>

\* part_002:70-72
onBeforeUnmount ==
  /\ appPhase' = "unmounted"
  /\ listening' = FALSE
  /\ appThrew' = FALSE
  /\ UNCHANGED <<currentComponent, api, parentOk, outbox>>

\* ---- the shell's events

\* What a handler finds when it starts: the handler that ran before it, with
\* its argument, the active view and the handle.
AppSnapshot ==
  [op |-> appLastOp, arg |-> appLastArg, view |-> currentComponent, api |-> api]

AppMount ==
  /\ appPhase = "setup"
  /\ onMounted
  /\ appLastOp' = "onMounted"
  /\ appBefore' = AppSnapshot
  /\ appLastSender' = NULL
  /\ appLastArg' = NoArg
  /\ UNCHANGED <<sentryVars, dashVars>>

AppUnmount ==
  /\ appPhase = "mounted"
  /\ onBeforeUnmount
  /\ appLastOp' = "onBeforeUnmount"
  /\ appBefore' = AppSnapshot
  /\ appLastSender' = NULL
  /\ appLastArg' = NoArg
  /\ UNCHANGED <<sentryVars, dashVars>>

\* A 'message' event is dispatched to handleMessage while it is registered.
AppMessage ==
  /\ listening
  /\ \E d \in MessageData, sender \in Senders :
        handleMessage(d) /\ appLastArg' = d /\ appLastSender' = sender
  /\ appLastOp' = "handleMessage"
  /\ appBefore' = AppSnapshot
  /\ UNCHANGED <<sentryVars, dashVars>>

\* A 'message' event with no listener registered reaches nothing.
AppMessageDropped ==
  /\ ~listening
  /\ \E d \in MessageData, sender \in Senders :
        appLastArg' = d /\ appLastSender' = sender
  /\ appLastOp' = "dropped"
  /\ appBefore' = AppSnapshot
  /\ appThrew' = FALSE
  /\ UNCHANGED <<appPhase, currentComponent, api, listening, parentOk, outbox>>
  /\ UNCHANGED <<sentryVars, dashVars>>

\* The active child emits 'switch', 'close' or 'save' (part_002:4).
AppSwitch ==
  /\ appPhase = "mounted"
  /\ switchComponent
  /\ appLastOp' = "switchComponent"
  /\ appBefore' = AppSnapshot
  /\ appLastSender' = NULL
  /\ appLastArg' = NoArg
  /\ UNCHANGED <<sentryVars, dashVars>>

AppClose ==
  /\ appPhase = "mounted"
  /\ Len(outbox) < MaxOutbox
  /\ closeModal
  /\ appLastOp' = "closeModal"
  /\ appBefore' = AppSnapshot
  /\ appLastSender' = NULL
  /\ appLastArg' = NoArg
  /\ UNCHANGED <<sentryVars, dashVars>>

AppSave ==
  /\ appPhase = "mounted"
  /\ Len(outbox) < MaxOutbox
  /\ \E config \in Payloads :
        /\ saveConfig(config)
        /\ appLastArg' = [present |-> TRUE, type |-> "save", data |-> config]
  /\ appLastOp' = "saveConfig"
  /\ appBefore' = AppSnapshot
  /\ appLastSender' = NULL
  /\ UNCHANGED <<sentryVars, dashVars>>

\* ============================================================ status widget

\* The three fields of a status response's data (Dashboard.vue:150-152).
Triples == [enabled : BOOLEAN, has_client : BOOLEAN, running : BOOLEAN]

NoTriple == [enabled |-> FALSE, has_client |-> FALSE, running |-> FALSE]

\* The msg field of a response, or the message of a rejection reason:
\* absent, empty, or a text.
Msgs == {NULL, "", "boom"}

\* What props.api.get(...) settles with.
\*   resolve, present = FALSE : the result is null / undefined
\*   resolve, present = TRUE  : {code, data?, msg?}
\*   reject,  present = FALSE : rejected with null / undefined
\*   reject,  present = TRUE  : rejected with an object whose message is msg
Responses ==
  {[kind |-> "resolve", present |-> FALSE, code |-> 1, hasData |-> FALSE,
    data |-> NoTriple, msg |-> NULL]}
    \cup {[kind |-> "resolve", present |-> TRUE, code |-> 0, hasData |-> TRUE,
           data |-> d, msg |-> NULL] : d \in Triples}
    \cup {[kind |-> "resolve", present |-> TRUE, code |-> c, hasData |-> FALSE,
           data |-> NoTriple, msg |-> m] : c \in {0, 1}, m \in Msgs}
    \cup {[kind |-> "resolve", present |-> TRUE, code |-> 1, hasData |-> TRUE,
           data |-> NoTriple, msg |-> m] : m \in Msgs}
    \cup {[kind |-> "reject", present |-> FALSE, code |-> 1, hasData |-> FALSE,
           data |-> NoTriple, msg |-> NULL]}
    \cup {[kind |-> "reject", present |-> TRUE, code |-> 1, hasData |-> FALSE,
           data |-> NoTriple, msg |-> m] : m \in {NULL, "", "Network Error"}}

\* No request was issued, so nothing settled.
NoResponse ==
  [kind |-> "none", present |-> FALSE, code |-> 1, hasData |-> FALSE,
   data |-> NoTriple, msg |-> NULL]

\* Date.now() as read on line 155: an instant, distinct from the initial null.
Clock == {"t1"}

\* Dashboard.vue:157, the text of line 157's fallback string.
ErrStatusFailed == "get-status-failed"

\* Dashboard.vue:161, the text of line 161's fallback string.
ErrDataFailed == "get-data-failed"

\* The message of the TypeError that props.api.get raises when props.api is null.
ErrNullApi == "TypeError: Cannot read properties of null (reading 'get')"

\* Dashboard.vue:148
IsSuccess(resp) ==
  resp.kind = "resolve" /\ resp.present /\ resp.code = 0 /\ resp.hasData

\* Dashboard.vue:159-161 when the reason is null / undefined: reading
\* err.message throws inside the catch block.
CatchThrows(resp) == resp.kind = "reject" /\ ~resp.present

\* Dashboard.vue:157-161: the text stored in error for a failing response.
ErrorText(resp) ==
  IF resp.kind = "resolve"
  THEN OrElse(OrElse(IF resp.present THEN resp.msg ELSE NULL, ErrStatusFailed),
              ErrDataFailed)
  ELSE OrElse(resp.msg, ErrDataFailed)

Failed(outcome) == outcome \in {"failure", "throw"}

\* Dashboard.vue:11-71 with the tests of lines 11 and 16 in the other order.
displayStateErrorFirst(l, e, h) ==
  IF Truthy(e) THEN "error"
  ELSE IF l /\ ~h THEN "initial-loading"
  ELSE IF h THEN "data"
  ELSE "empty"

\* Dashboard.vue:11-71: the branch of the v-if / v-else-if / v-else chain that
\* is rendered for loading l, error e and initialDataLoaded h.
displayState(l, e, h) ==
  IF l /\ ~h THEN "initial-loading"
  ELSE IF Truthy(e) THEN "error"
  ELSE IF h THEN "data"
  ELSE "empty"

\* What the template shows in the current state.
displayed == displayState(loading, error, initialDataLoaded)

\* Dashboard.vue:137-146 without line 139: error is not cleared.
fetchDataKeepsError ==
  /\ fetchCount' = fetchCount + 1
  /\ UNCHANGED <<initialDataLoaded, lastRefreshedTimestamp, status, successes,
                 propsApi, refreshInterval, allowRefresh>>
  /\ IF propsApi = NULL
     THEN /\ loading' = FALSE
          /\ error' = ErrNullApi
          /\ pending' = {[r EXCEPT !.alone = FALSE] : r \in pending}
          /\ lastDone' = [outcome |-> "failure", data |-> NoTriple,
                          id |-> fetchCount + 1, resp |-> NoResponse,
                          alone |-> pending = {},
                          afterFail |-> pending = {} /\ Failed(lastDone.outcome)]
          /\ fetchRejected' = FALSE
     ELSE /\ loading' = TRUE
          /\ pending' = {[r EXCEPT !.alone = FALSE] : r \in pending}
                          \cup {[id |-> fetchCount + 1,
                                 alone |-> pending = {},
                                 afterFail |-> pending = {}
                                                /\ Failed(lastDone.outcome)]}
          /\ UNCHANGED <<error, lastDone, fetchRejected>>

\* Dashboard.vue:137-146, fetchData up to its await. With props.api null the
\* call of line 146 throws at once and lines 159-163 run in the same step.
fetchData ==
  /\ fetchCount' = fetchCount + 1
  /\ UNCHANGED <<initialDataLoaded, lastRefreshedTimestamp, status, successes,
                 propsApi, refreshInterval, allowRefresh>>
  /\ IF propsApi = NULL
     THEN /\ loading' = FALSE
          /\ error' = ErrNullApi
          /\ pending' = {[r EXCEPT !.alone = FALSE] : r \in pending}
          /\ lastDone' = [outcome |-> "failure", data |-> NoTriple,
                          id |-> fetchCount + 1, resp |-> NoResponse,
                          alone |-> pending = {},
                          afterFail |-> pending = {} /\ Failed(lastDone.outcome)]
          /\ fetchRejected' = FALSE
     ELSE /\ loading' = TRUE
          /\ error' = NULL
          /\ pending' = {[r EXCEPT !.alone = FALSE] : r \in pending}
                          \cup {[id |-> fetchCount + 1,
                                 alone |-> pending = {},
                                 afterFail |-> pending = {}
                                                /\ Failed(lastDone.outcome)]}
          /\ UNCHANGED <<lastDone, fetchRejected>>

\* Dashboard.vue:146-164 with a catch block that also clears the loaded flag.
fetchDataResumeResetsLoaded(r, resp, t) ==
  /\ pending' = pending \ {r}
  /\ loading' = FALSE
  /\ UNCHANGED <<propsApi, refreshInterval, allowRefresh, fetchCount>>
  /\ IF IsSuccess(resp)
     THEN /\ status' = resp.data
          /\ initialDataLoaded' = TRUE
          /\ lastRefreshedTimestamp' = t
          /\ successes' = successes + 1
          /\ fetchRejected' = FALSE
          /\ lastDone' = [outcome |-> "success", data |-> resp.data,
                          id |-> r.id, alone |-> r.alone, resp |-> resp,
                          afterFail |-> r.afterFail]
          /\ UNCHANGED error
     ELSE /\ error' = IF CatchThrows(resp) THEN error ELSE ErrorText(resp)
          /\ initialDataLoaded' = FALSE
          /\ fetchRejected' = CatchThrows(resp)
          /\ lastDone' = [outcome |-> IF CatchThrows(resp) THEN "throw"
                                      ELSE "failure",
                          data |-> NoTriple,
                          id |-> r.id, alone |-> r.alone, resp |-> resp,
                          afterFail |-> r.afterFail]
          /\ UNCHANGED <<status, lastRefreshedTimestamp, successes>>

\* Dashboard.vue:146-164 with lines 151-152 reading each other's field.
fetchDataResumeSwapsFields(r, resp, t) ==
  /\ pending' = pending \ {r}
  /\ loading' = FALSE
  /\ UNCHANGED <<propsApi, refreshInterval, allowRefresh, fetchCount>>
  /\ IF IsSuccess(resp)
     THEN /\ status' = [enabled    |-> resp.data.enabled,
                          has_client |-> resp.data.running,
                          running    |-> resp.data.has_client]
          /\ initialDataLoaded' = TRUE
          /\ lastRefreshedTimestamp' = t
          /\ successes' = successes + 1
          /\ fetchRejected' = FALSE
          /\ lastDone' = [outcome |-> "success", data |-> resp.data,
                          id |-> r.id, alone |-> r.alone, resp |-> resp,
                          afterFail |-> r.afterFail]
          /\ UNCHANGED error
     ELSE /\ error' = IF CatchThrows(resp) THEN error ELSE ErrorText(resp)
          /\ fetchRejected' = CatchThrows(resp)
          /\ lastDone' = [outcome |-> IF CatchThrows(resp) THEN "throw"
                                      ELSE "failure",
                          data |-> NoTriple,
                          id |-> r.id, alone |-> r.alone, resp |-> resp,
                          afterFail |-> r.afterFail]
          /\ UNCHANGED <<status, initialDataLoaded, lastRefreshedTimestamp,
                         successes>>

\* Dashboard.vue:146-164 keeping only the data of the request issued last.
fetchDataResumeLatestRequestWins(r, resp, t) ==
  /\ pending' = pending \ {r}
  /\ loading' = FALSE
  /\ UNCHANGED <<propsApi, refreshInterval, allowRefresh, fetchCount>>
  /\ IF IsSuccess(resp)
     THEN /\ status' = IF r.id = fetchCount THEN resp.data ELSE status
          /\ initialDataLoaded' = TRUE
          /\ lastRefreshedTimestamp' = t
          /\ successes' = successes + 1
          /\ fetchRejected' = FALSE
          /\ lastDone' = [outcome |-> "success", data |-> resp.data,
                          id |-> r.id, alone |-> r.alone, resp |-> resp,
                          afterFail |-> r.afterFail]
          /\ UNCHANGED error
     ELSE /\ error' = IF CatchThrows(resp) THEN error ELSE ErrorText(resp)
          /\ fetchRejected' = CatchThrows(resp)
          /\ lastDone' = [outcome |-> IF CatchThrows(resp) THEN "throw"
                                      ELSE "failure",
                          data |-> NoTriple,
                          id |-> r.id, alone |-> r.alone, resp |-> resp,
                          afterFail |-> r.afterFail]
          /\ UNCHANGED <<status, initialDataLoaded, lastRefreshedTimestamp,
                         successes>>

\* Dashboard.vue:146-164 with line 163 moved to the end of the try block:
\* loading is reset only when nothing was thrown.
fetchDataResumeNoFinally(r, resp, t) ==
  /\ pending' = pending \ {r}
  /\ loading' = IF IsSuccess(resp) THEN FALSE ELSE loading
  /\ UNCHANGED <<propsApi, refreshInterval, allowRefresh, fetchCount>>
  /\ IF IsSuccess(resp)
     THEN /\ status' = resp.data
          /\ initialDataLoaded' = TRUE
          /\ lastRefreshedTimestamp' = t
          /\ successes' = successes + 1
          /\ fetchRejected' = FALSE
          /\ lastDone' = [outcome |-> "success", data |-> resp.data,
                          id |-> r.id, alone |-> r.alone, resp |-> resp,
                          afterFail |-> r.afterFail]
          /\ UNCHANGED error
     ELSE /\ error' = IF CatchThrows(resp) THEN error ELSE ErrorText(resp)
          /\ fetchRejected' = CatchThrows(resp)
          /\ lastDone' = [outcome |-> IF CatchThrows(resp) THEN "throw"
                                      ELSE "failure",
                          data |-> NoTriple,
                          id |-> r.id, alone |-> r.alone, resp |-> resp,
                          afterFail |-> r.afterFail]
          /\ UNCHANGED <<status, initialDataLoaded, lastRefreshedTimestamp,
                         successes>>

\* Dashboard.vue:146-164, fetchData from its await on: the request of call r
\* settles with resp, and t is what Date.now() returns.
fetchDataResume(r, resp, t) ==
  /\ pending' = pending \ {r}
  /\ loading' = FALSE
  /\ UNCHANGED <<propsApi, refreshInterval, allowRefresh, fetchCount>>
  /\ IF IsSuccess(resp)
     THEN /\ status' = resp.data
          /\ initialDataLoaded' = TRUE
          /\ lastRefreshedTimestamp' = t
          /\ successes' = successes + 1
          /\ fetchRejected' = FALSE
          /\ lastDone' = [outcome |-> "success", data |-> resp.data,
                          id |-> r.id, alone |-> r.alone, resp |-> resp,
                          afterFail |-> r.afterFail]
          /\ UNCHANGED error
     ELSE /\ error' = IF CatchThrows(resp) THEN error ELSE ErrorText(resp)
          /\ fetchRejected' = CatchThrows(resp)
          /\ lastDone' = [outcome |-> IF CatchThrows(resp) THEN "throw"
                                      ELSE "failure",
                          data |-> NoTriple,
                          id |-> r.id, alone |-> r.alone, resp |-> resp,
                          afterFail |-> r.afterFail]
          /\ UNCHANGED <<status, initialDataLoaded, lastRefreshedTimestamp,
                         successes>>

\* Dashboard.vue:176-184 with line 181 testing the interval for truthiness.
dashOnMountedTruthyInterval ==
  /\ \E so \in SentryOutcomes : ensureSentryInitialized("ctxApp", "ok", so)
  /\ fetchData
  /\ IF refreshInterval # 0
     THEN refreshTimer' = "timer" /\ intervalActive' = TRUE
     ELSE UNCHANGED <<refreshTimer, intervalActive>>

\* Dashboard.vue:176-184. Inside a lifecycle hook getCurrentInstance() returns
\* the component's instance, whose appContext carries the app.
dashOnMounted ==
  /\ \E so \in SentryOutcomes : ensureSentryInitialized("ctxApp", "ok", so)
  /\ fetchData
  /\ IF refreshInterval > 0
     THEN refreshTimer' = "timer" /\ intervalActive' = TRUE
     ELSE UNCHANGED <<refreshTimer, intervalActive>>

\* Dashboard.vue:187-192 without the clearInterval of line 189.
dashOnUnmountedKeepsInterval ==
  /\ refreshTimer' = NULL
  /\ UNCHANGED intervalActive
  /\ UNCHANGED <<propsApi, refreshInterval, allowRefresh, loading, error,
                 initialDataLoaded, lastRefreshedTimestamp, status, pending,
                 fetchCount, successes, lastDone, fetchRejected>>

\* Dashboard.vue:187-192
dashOnUnmounted ==
  /\ IF refreshTimer # NULL
     THEN refreshTimer' = NULL /\ intervalActive' = FALSE
     ELSE UNCHANGED <<refreshTimer, intervalActive>>
  /\ UNCHANGED <<propsApi, refreshInterval, allowRefresh, loading, error,
                 initialDataLoaded, lastRefreshedTimestamp, status, pending,
                 fetchCount, successes, lastDone, fetchRejected>>

\* ---- the widget's events

DashMount ==
  /\ dashPhase = "setup"
  /\ dashPhase' = "mounted"
  /\ dashOnMounted
  /\ dashLastOp' = "onMounted"
  /\ UNCHANGED lastFilter
  /\ UNCHANGED appVars

DashUnmount ==
  /\ dashPhase = "mounted"
  /\ dashPhase' = "unmounted"
  /\ dashOnUnmounted
  /\ dashLastOp' = "onUnmounted"
  /\ UNCHANGED <<appVars, sentryVars>>

\* The interval of line 182 fires.
DashTimer ==
  /\ intervalActive
  /\ fetchCount < MaxFetches
  /\ fetchData
  /\ dashLastOp' = "timer"
  /\ UNCHANGED <<dashPhase, refreshTimer, intervalActive>>
  /\ UNCHANGED <<appVars, sentryVars>>

\* The refresh button of line 79, rendered only with props.allowRefresh.
DashClick ==
  /\ dashPhase = "mounted"
  /\ allowRefresh
  /\ fetchCount < MaxFetches
  /\ fetchData
  /\ dashLastOp' = "click"
  /\ UNCHANGED <<dashPhase, refreshTimer, intervalActive>>
  /\ UNCHANGED <<appVars, sentryVars>>

\* A request settles, in any order and also after unmount: nothing cancels it.
DashResponse ==
  /\ \E r \in pending, resp \in Responses, t \in Clock :
        fetchDataResume(r, resp, t)
  /\ dashLastOp' = "resume"
  /\ UNCHANGED <<dashPhase, refreshTimer, intervalActive>>
  /\ UNCHANGED <<appVars, sentryVars>>

\* Dashboard.vue:92-129: the state script setup leaves, for the props the
\* embedding context passes.
InitDashboard ==
  /\ dashPhase = "setup"
  /\ propsApi \in {NULL, "apiA"}
  /\ refreshInterval \in {-1, 0, 5}
  /\ allowRefresh \in BOOLEAN
  /\ loading = FALSE
  /\ error = NULL
  /\ initialDataLoaded = FALSE
  /\ lastRefreshedTimestamp = NULL
  /\ status = [enabled |-> FALSE, has_client |-> FALSE, running |-> FALSE]
  /\ refreshTimer = NULL
  /\ intervalActive = FALSE
  /\ pending = {}
  /\ fetchCount = 0
  /\ successes = 0
  /\ lastDone = [outcome |-> "none", data |-> NoTriple, id |-> 0,
                 resp |-> NoResponse, alone |-> FALSE, afterFail |-> FALSE]
  /\ dashLastOp = "setup"
  /\ fetchRejected = FALSE

\* A widget that is never mounted (the other specifications).
DashboardIdle ==
  InitDashboard /\ propsApi = NULL /\ refreshInterval = 0 /\ ~allowRefresh

\* part_002:18-22: the state setup() leaves, in a frame whose parent may or
\* may not offer postMessage.
InitApp ==
  /\ appPhase = "setup"
  /\ currentComponent = "Page"
  /\ api = NULL
  /\ listening = FALSE
  /\ parentOk \in BOOLEAN
  /\ outbox = <<>>
  /\ appThrew = FALSE
  /\ appLastOp = "setup"
  /\ appLastArg = NoArg
  /\ appBefore = [op |-> "none", arg |-> NoArg, view |-> "Page", api |-> NULL]
  /\ appLastSender = NULL

\* Module load of init-sentry.js (lines 4-5) in a page whose two global slots
\* may or may not have been filled by the host.
InitSentryModule ==
  /\ sentryInitialized = FALSE
  /\ tempApp = NULL
  /\ winVueApp \in {NULL, "winApp"}
  /\ winVueInstance \in {NULL, "winInstance"}
  /\ sdkInitCalls = 0
  /\ sdkApp = NULL
  /\ filterRegistered = FALSE
  /\ initSentryCalls = 0
  /\ failedAttempts = 0
  /\ ensureCalls = 0
  /\ consoleErrors = 0
  /\ callThrew = FALSE
  /\ lastFilter = [called |-> FALSE, event |-> [url |-> NULL], hint |-> NoHint,
                   result |-> "none"]

\* Any component calls ensureSentryInitialized() (e.g. Dashboard.vue:177).
EnsureCall ==
  /\ ensureCalls < MaxEnsureCalls
  /\ \E inst \in InstanceKinds, co \in CreateOutcomes, so \in SentryOutcomes :
        ensureSentryInitialized(inst, co, so)
  /\ UNCHANGED lastFilter
  /\ UNCHANGED <<appVars, dashVars>>

\* Once a Sentry.init call has returned (sentry.js:96), the client has the
\* options' beforeSend and passes every event it is about to send through it.
SdkBeforeSend ==
  /\ filterRegistered
  /\ \E event \in FilterEvents, hint \in FilterHints :
        lastFilter' = [called |-> TRUE, event |-> event, hint |-> hint,
                       result |-> beforeSend(event, hint)]
  /\ UNCHANGED <<sentryInitialized, tempApp, winVueApp, winVueInstance,
                 sdkInitCalls, sdkApp, filterRegistered, initSentryCalls,
                 failedAttempts, ensureCalls, consoleErrors, callThrew>>
  /\ UNCHANGED <<appVars, dashVars>>

\* ------------------------------------------------------------ specifications

\* The diagnostics singleton alone; the shell stays as setup() left it.
InitSentrySpec == InitSentryModule /\ InitApp /\ parentOk /\ DashboardIdle

NextSentry == EnsureCall

SpecSentry == InitSentrySpec /\ [][NextSentry]_vars

\* The diagnostics singleton together with the events its client filters.
NextSentryFilter ==
  \/ EnsureCall
  \/ SdkBeforeSend

SpecSentryFilter == InitSentrySpec /\ [][NextSentryFilter]_vars

\* The view shell alone; the diagnostics module is loaded and never called.
InitAppSpec ==
  /\ InitApp
  /\ InitSentryModule /\ winVueApp = NULL /\ winVueInstance = NULL
  /\ DashboardIdle

NextApp ==
  \/ AppMount
  \/ AppUnmount
  \/ AppMessage
  \/ AppMessageDropped
  \/ AppSwitch
  \/ AppClose
  \/ AppSave

SpecApp == InitAppSpec /\ [][NextApp]_vars

\* The status widget, with the diagnostics call its mount makes.
InitDashboardSpec ==
  /\ InitDashboard
  /\ InitSentryModule /\ winVueApp = NULL /\ winVueInstance = NULL
  /\ InitApp /\ parentOk

NextDashboard ==
  \/ DashMount
  \/ DashUnmount
  \/ DashTimer
  \/ DashClick
  \/ DashResponse

SpecDashboard == InitDashboardSpec /\ [][NextDashboard]_vars

\* ==================================================================== claims

\* C1: immediately after save(x) returns, the active view is primary, for any
\* payload x and whether the send to the host succeeds, is skipped or fails.
C1_SaveAlwaysPrimary ==
  appLastOp = "saveConfig" => currentComponent = "Page"

\* C2: once the widget is unmounted, a request that settles later changes none
\* of loading, error, initialDataLoaded, lastRefreshedTimestamp and status,
\* and throws nothing.
C2_LateResponseDiscarded ==
  [][(dashPhase = "unmounted" /\ dashLastOp' = "resume")
       => /\ UNCHANGED <<loading, error, initialDataLoaded,
                         lastRefreshedTimestamp, status>>
          /\ ~fetchRejected']_vars

\* C3: once a message has set the capability handle, no later message changes
\* its value during that mount.
C3_HandleWrittenOnce ==
  [][api # NULL => api' = api]_vars

\* C4: however many times ensureSentryInitialized is called, initSentry is
\* entered exactly once and Sentry.init is invoked at most once.
C4_ExactlyOneAttempt ==
  ensureCalls >= 1 => (initSentryCalls = 1 /\ sdkInitCalls <= 1)

\* Several calls were made and one attempt was counted.
C4_Witness ==
  ensureCalls >= 3 /\ initSentryCalls = 1

\* C5: once an attempt has failed (something threw during it), no later call
\* of ensureSentryInitialized enters initSentry or Sentry.init again.
C5_NoRetryAfterFailure ==
  [][failedAttempts > 0
       => /\ initSentryCalls' = initSentryCalls
          /\ sdkInitCalls' = sdkInitCalls
          /\ failedAttempts' = failedAttempts
          /\ sentryInitialized']_vars

\* The client threw during the first attempt and further calls followed.
C5_Witness ==
  failedAttempts = 1 /\ consoleErrors >= 1 /\ ensureCalls >= 3
    /\ initSentryCalls = 1

\* C6: no call of ensureSentryInitialized throws to its caller.
C6_NeverThrows ==
  ~callThrew

\* A call in which createApp threw and then the client threw has returned.
C6_Witness ==
  consoleErrors = 2 /\ tempApp = NULL /\ sdkApp = NULL /\ ensureCalls >= 1
    /\ ~callThrew

\* C7: the active view is always Page or Config, and it is Page from setup()
\* until the first event after mount.
C7_ViewDefined ==
  /\ currentComponent \in {"Page", "Config"}
  /\ appPhase = "setup" => currentComponent = "Page"
  /\ appLastOp = "onMounted" => currentComponent = "Page"

\* Config is shown after a switch, with the handle set and a save and a close
\* already sent.
C7_Witness ==
  /\ appLastOp = "switchComponent"
  /\ currentComponent = "Config"
  /\ api \in Handles
  /\ \E i \in 1..Len(outbox) : outbox[i].type = "save"
  /\ \E i \in 1..Len(outbox) : outbox[i].type = "close"

\* C8: a failing response leaves status, initialDataLoaded and
\* lastRefreshedTimestamp as they were and leaves error a non-empty message.
C8_FailureKeepsSnapshot ==
  [][(dashLastOp' = "resume" /\ Failed(lastDone'.outcome))
       => /\ status' = status
          /\ initialDataLoaded' = initialDataLoaded
          /\ lastRefreshedTimestamp' = lastRefreshedTimestamp
          /\ Truthy(error')]_vars

\* C9: a refresh that started after a failed one had completed, overlapped
\* no other refresh and received a structured success leaves error empty and
\* status equal to the response's data.
C9_SuccessAfterFailure ==
  (dashLastOp = "resume" /\ lastDone.outcome = "success"
     /\ lastDone.alone /\ lastDone.afterFail)
    => (error = NULL /\ status = lastDone.data)

\* Such a refresh has just completed and brought new values.
C9_Witness ==
  /\ dashLastOp = "resume" /\ lastDone.outcome = "success"
  /\ lastDone.alone /\ lastDone.afterFail
  /\ status.enabled /\ ~status.has_client /\ status.running
  /\ error = NULL

\* C10: initialDataLoaded is true exactly when a structured success has been
\* processed, and no step sets it back to false.
C10_LoadedOnceMonotonic ==
  /\ [](initialDataLoaded <=> successes > 0)
  /\ [][initialDataLoaded => initialDataLoaded']_vars

\* A failure was processed after a success, after unmount, with the flag set.
C10_Witness ==
  /\ initialDataLoaded /\ successes = 1
  /\ dashLastOp = "resume" /\ Failed(lastDone.outcome)
  /\ dashPhase = "unmounted"

\* Number of envelopes of type t posted to the parent so far.
Posted(t) == Cardinality({i \in 1..Len(outbox) : outbox[i].type = t})

\* The last handled message was neither an api nor a showConfig message.
UnrecognizedMessage(d) == ~IsType(d, "api") /\ ~IsType(d, "showConfig")

\* C12: a message whose kind is neither api nor showConfig, or that has no
\* data object or no kind, changes neither the handle nor the active view, and
\* handleMessage does not throw.
C12_UnknownMessageIgnored ==
  [][(appLastOp' = "handleMessage" /\ UnrecognizedMessage(appLastArg'))
       => /\ api' = api
          /\ currentComponent' = currentComponent
          /\ ~appThrew']_vars

\* A close message was handled while Config was shown and the handle was set.
C12_Witness ==
  /\ appLastOp = "handleMessage"
  /\ appLastArg.present /\ appLastArg.type = "close"
  /\ currentComponent = "Config" /\ api \in Handles

\* C13: once the handle is non-null, no later step makes it null again.
C13_HandleStaysValid ==
  [][api # NULL => api' # NULL]_vars

\* C16: with no transport, nothing is ever posted and no handler throws.
C16_NoTransportNoThrow ==
  ~parentOk => (outbox = <<>> /\ ~appThrew)

\* save was called with an uncloneable payload and no transport.
C16_Witness ==
  /\ ~parentOk
  /\ appLastOp = "saveConfig" /\ appLastArg.data = "uncloneable"
  /\ currentComponent = "Page" /\ outbox = <<>>

\* C17: exactly one ready envelope has been posted once the shell is mounted
\* with a transport, none before mount and none without a transport.
C17_ReadyOnce ==
  Posted("ready") = IF parentOk /\ appPhase # "setup" THEN 1 ELSE 0

\* After mount a save and a close were posted and an api message was handled.
C17_Witness ==
  /\ Posted("ready") = 1 /\ Posted("save") = 1 /\ Posted("close") = 1
  /\ appLastOp = "handleMessage" /\ appLastArg.type = "api"

\* C11: after a structured success is processed, enabled, has_client and
\* running of the snapshot equal enabled, has_client and running of the
\* response, field by field.
C11_SnapshotEqualsResponse ==
  (dashLastOp = "resume" /\ lastDone.outcome = "success")
    => /\ status.enabled = lastDone.data.enabled
       /\ status.has_client = lastDone.data.has_client
       /\ status.running = lastDone.data.running

\* A second success has replaced the snapshot by a triple with distinct fields.
C11_Witness ==
  /\ dashLastOp = "resume" /\ lastDone.outcome = "success" /\ successes = 2
  /\ ~status.enabled /\ status.has_client /\ ~status.running

\* C14: a refresh made while props.api is null does not leave error set.
C14_AbsentHandleIsPending ==
  (propsApi = NULL /\ fetchCount > 0) => ~Truthy(error)

\* C15: once the widget is unmounted, no step starts another fetchData call
\* or issues another request.
C15_NoRefreshAfterUnmount ==
  [][dashPhase = "unmounted"
       => (fetchCount' = fetchCount /\ pending' \subseteq pending)]_vars

\* The timer fired before unmount and a response was processed after it.
C15_Witness ==
  /\ dashPhase = "unmounted" /\ refreshInterval > 0 /\ ~allowRefresh
  /\ fetchCount = 2 /\ dashLastOp = "resume" /\ pending # {}

\* C18: when every refresh so far got a structured success and none is in
\* flight, the snapshot is the data of the response that arrived last.
C18_LastArrivalWins ==
  (pending = {} /\ fetchCount >= 2 /\ successes = fetchCount)
    => status = lastDone.data

\* Three overlapping refreshes all succeeded and the first one issued was
\* the last to arrive.
C18_Witness ==
  /\ pending = {} /\ fetchCount = 3 /\ successes = 3
  /\ lastDone.id = 1 /\ ~lastDone.alone
  /\ status.enabled /\ status.has_client /\ ~status.running

\* C19: once no request is in flight, error is non-empty only if the response
\* that arrived last was a failure.
C19_ErrorReflectsLastArrival ==
  (pending = {} /\ dashLastOp = "resume")
    => (Truthy(error) => Failed(lastDone.outcome))

\* C20: loading is true exactly while some request awaits its response.
C20_LoadingIffInFlight ==
  loading <=> (pending # {})

\* C23: a showConfig message leaves Config active whatever the view and the
\* handle were, and Config is also active when the api message was handled
\* right after the showConfig message: either order of the two gives Config.
C23_ShowConfigFromEveryState ==
  /\ (appLastOp = "handleMessage" /\ IsType(appLastArg, "showConfig"))
       => currentComponent = "Config"
  /\ (/\ appLastOp = "handleMessage" /\ IsType(appLastArg, "api")
      /\ appBefore.op = "handleMessage" /\ IsType(appBefore.arg, "showConfig"))
       => currentComponent = "Config"

\* showConfig arrived first, while the handle was still null, then api.
C23_Witness ==
  /\ appLastOp = "handleMessage" /\ IsType(appLastArg, "api")
  /\ appBefore.op = "handleMessage" /\ IsType(appBefore.arg, "showConfig")
  /\ appBefore.api = NULL /\ api \in Handles
  /\ currentComponent = "Config"

\* C24: handling an api message leaves the active view, the listener and the
\* outbox as they were, and handling a showConfig message leaves the handle,
\* the listener and the outbox as they were.
C24_MessagesTouchOneField ==
  [][appLastOp' = "handleMessage"
       => /\ IsType(appLastArg', "api")
               => UNCHANGED <<currentComponent, listening, outbox, appPhase>>
          /\ IsType(appLastArg', "showConfig")
               => UNCHANGED <<api, listening, outbox, appPhase>>]_vars

\* An api message replaced the handle while Config was shown.
C24_Witness ==
  /\ appLastOp = "handleMessage" /\ IsType(appLastArg, "api")
  /\ appBefore.view = "Config" /\ currentComponent = "Config"
  /\ appBefore.api = "apiA" /\ api = "apiB"

\* C25: a switch shows the other view, and the second of two switches in a
\* row shows the view that was active before the first.
C25_SwitchToggles ==
  /\ [](appLastOp = "switchComponent"
          => /\ appBefore.view = "Page" => currentComponent = "Config"
             /\ appBefore.view = "Config" => currentComponent = "Page")
  /\ [][(appLastOp = "switchComponent" /\ appLastOp' = "switchComponent")
          => currentComponent' = appBefore.view]_vars

\* Two switches in a row were made starting from Config.
C25_Witness ==
  /\ appLastOp = "switchComponent" /\ appBefore.op = "switchComponent"
  /\ appBefore.view = "Page" /\ currentComponent = "Config"

\* C26: close posts exactly one close envelope when the parent offers
\* postMessage and none otherwise, and leaves the active view, the handle
\* and the listener as they were.
C26_CloseHasNoLocalEffect ==
  [][appLastOp' = "closeModal"
       => /\ outbox' = IF parentOk
                       THEN Append(outbox, [type |-> "close", data |-> NULL])
                       ELSE outbox
          /\ UNCHANGED <<currentComponent, api, listening, appPhase>>
          /\ ~appThrew']_vars

\* close was called while Config was shown with the handle set.
C26_Witness ==
  /\ appLastOp = "closeModal" /\ parentOk
  /\ currentComponent = "Config" /\ api \in Handles
  /\ outbox[Len(outbox)].type = "close"

\* C30: from the moment ready has been posted until unmount the listener is
\* registered, no message is dropped in between, and an api message handled
\* then is stored as the handle.
C30_ListenerBeforeReady ==
  /\ (Posted("ready") >= 1 /\ appPhase = "mounted") => listening
  /\ (appLastOp = "dropped" /\ Posted("ready") >= 1) => appPhase = "unmounted"
  /\ (appLastOp = "handleMessage" /\ IsType(appLastArg, "api"))
       => api = appLastArg.data

\* The api message was the first event after mount and its handle was stored.
C30_Witness ==
  /\ appLastOp = "handleMessage" /\ IsType(appLastArg, "api")
  /\ appBefore.op = "onMounted" /\ Posted("ready") = 1
  /\ appBefore.api = NULL /\ api = "apiA"

\* The steps that call fetchData.
RefreshOps == {"onMounted", "timer", "click"}

\* C21: when a refresh has just issued its request, loading is true and error
\* is null; when a response has just been processed, loading is false,
\* whether it was a success, a failure or a rejection.
C21_RefreshBracketsLoading ==
  /\ (dashLastOp \in RefreshOps /\ \E r \in pending : r.id = fetchCount)
       => (loading /\ error = NULL)
  /\ dashLastOp = "resume" => ~loading

\* A refresh that started after a failure, and so cleared its error, has
\* itself just failed.
C21_Witness ==
  /\ dashLastOp = "resume" /\ lastDone.outcome = "failure"
  /\ lastDone.alone /\ lastDone.afterFail
  /\ ~loading /\ Truthy(error)

\* C22: mount makes exactly one fetchData call; while mounted an interval
\* exists exactly when refreshInterval > 0; with refreshInterval <= 0 the
\* timer never fires, and without the refresh button the mount refresh is
\* then the only one.
C22_TimerIffPositiveInterval ==
  /\ dashPhase = "setup" => (fetchCount = 0 /\ ~intervalActive)
  /\ dashLastOp = "onMounted" => fetchCount = 1
  /\ dashPhase = "mounted"
       => /\ intervalActive <=> refreshInterval > 0
          /\ refreshTimer # NULL <=> refreshInterval > 0
  /\ refreshInterval <= 0 => (~intervalActive /\ dashLastOp # "timer")
  /\ (refreshInterval <= 0 /\ ~allowRefresh) => fetchCount <= 1

\* With a negative interval the widget was refreshed by hand twice.
C22_Witness ==
  /\ refreshInterval < 0 /\ allowRefresh /\ dashPhase = "mounted"
  /\ propsApi # NULL
  /\ dashLastOp = "click" /\ fetchCount = 3 /\ ~intervalActive

\* The values error can hold: null, or one of the texts fetchData stores.
ErrorValues ==
  {NULL, ErrNullApi}
    \cup {ErrorText(resp) : resp \in {x \in Responses : ~CatchThrows(x)}}

\* C27: for every loading, error and initialDataLoaded the template shows
\* initial-loading when loading and not loaded; otherwise error when error is
\* set; otherwise data when loaded; otherwise empty; and error only ever
\* holds null or a non-empty text.
C27_DisplayStatePriority ==
  /\ error \in ErrorValues /\ error # ""
  /\ displayed \in {"initial-loading", "error", "data", "empty"}
  /\ \A l \in BOOLEAN, h \in BOOLEAN, e \in ErrorValues :
        LET s == displayState(l, e, h) IN
        /\ (l /\ ~h) => s = "initial-loading"
        /\ (~(l /\ ~h) /\ e # NULL) => s = "error"
        /\ (~(l /\ ~h) /\ e = NULL /\ h) => s = "data"
        /\ (~(l /\ ~h) /\ e = NULL /\ ~h) => s = "empty"

\* After a success, a failure: the error state is shown although data is
\* loaded.
C27_Witness ==
  /\ initialDataLoaded /\ ~loading /\ Truthy(error)
  /\ displayed = "error"

\* C28: the response just processed counted as a success exactly when it was
\* present with code 0 and data; after any other response, and after any
\* rejection, error holds the msg (or the reason's message) when that is a
\* non-empty text and a non-empty fallback text otherwise.
C28_SuccessIffCodeZeroAndData ==
  dashLastOp = "resume" =>
    LET resp == lastDone.resp IN
    /\ lastDone.outcome = "success"
         <=> (resp.kind = "resolve" /\ resp.present /\ resp.code = 0
                /\ resp.hasData)
    /\ lastDone.outcome # "success"
         => /\ error # NULL /\ error # ""
            /\ error = IF resp.present /\ resp.msg \notin {NULL, ""}
                       THEN resp.msg
                       ELSE IF resp.kind = "resolve" THEN ErrStatusFailed
                       ELSE ErrDataFailed

\* C31: once the shell is unmounted no listener is registered, and no step,
\* in particular no message that arrives, changes the handle or the view.
C31_NoMessagesAfterUnmount ==
  /\ [](appPhase = "unmounted" => ~listening)
  /\ [][appPhase = "unmounted"
          => (api' = api /\ currentComponent' = currentComponent)]_vars

\* After unmount an api message carrying another handle arrived and the
\* handle set before unmount is still there.
C31_Witness ==
  /\ appPhase = "unmounted" /\ appLastOp = "dropped"
  /\ IsType(appLastArg, "api") /\ appLastArg.data = "apiB"
  /\ api = "apiA" /\ currentComponent = "Page"

\* C33: a message sent by a window other than the parent changes neither the
\* handle nor the active view, so runs that differ only in such messages end
\* with the same handle and the same view.
C33_OnlyHostMessagesChangeState ==
  [][(appLastOp' = "handleMessage" /\ appLastSender' = "other")
       => (api' = api /\ currentComponent' = currentComponent)]_vars

\* C32: once the mount refresh has started, loading is true or error is
\* non-empty or initialDataLoaded is true: the empty state is never shown
\* again.
C32_NeverEmptyAfterMount ==
  fetchCount > 0 => (loading \/ Truthy(error) \/ initialDataLoaded)

\* C34: whatever event and hint beforeSend is given, it returns null or the
\* event and does not throw.
C34_BeforeSendTotal ==
  lastFilter.called => lastFilter.result \in {"null", "event"}

====
